---- MODULE Spec2Model ----
(***************************************************************************)
(* Base Identity Protocol: wallet analysis (analysis.py), the three-node   *)
(* workflow analyst -> identity -> save (graph.py), the identities table   *)
(* (database.py) and the request handler of the dashboard (app.py).        *)
(*                                                                         *)
(* Conventions.                                                            *)
(*   - A Python Optional / nullable column / JSON value that may be null   *)
(*     is a sequence of length <= 1: None is << >>, a value v is <<v>>.    *)
(*   - A float obtained by dividing an integer amount of wei by 10**18 is  *)
(*     the fraction [num, den]; comparisons with the literals 10, 1, 0.1   *)
(*     and 0 are done on the fraction.  Amounts of wei are counted in      *)
(*     units of 10**16 wei, so that 10**18 wei is WeiPerEth units.         *)
(*   - Scores are kept exact: final_score is carried in tenths             *)
(*     (3*w + 4*v + 3*c = 10 * (0.3*w + 0.4*v + 0.3*c)).                   *)
(***************************************************************************)
EXTENDS Integers, Sequences, FiniteSets, TLC

VARIABLES
    store,          \* the identities table: address -> row
    pc,             \* per request: position in app.main / the graph
    state,          \* per request: the GraphState passed between nodes
    txn,            \* per request: save_identity's session after the query
    err,            \* per request: the exception that ended the run
    identity_data,  \* per request: the row displayed to the caller
    cached,         \* per request: app.main's `cached` flag
    now,            \* datetime.utcnow(), a logical clock
    calls,          \* per request: external calls and writes of this run
    namingCalls,    \* per address: chain.invoke calls made so far
    runs,           \* number of requests started so far
    mintResult,     \* return value of the last mark_as_minted call
    answer,         \* per request: what chain.invoke did in this run
    phase,          \* analyze_wallet harness: "input" or "returned"
    in_address,     \* analyze_wallet harness: the address argument
    env,            \* analyze_wallet harness: what the provider answers
    result,         \* analyze_wallet harness: the outcome of the call
    fn,             \* scoring harness: the function that is called
    arg,            \* scoring harness: its arguments
    out             \* scoring harness: what it returned

vars == <<store, pc, state, txn, err, identity_data, cached, now, calls,
          namingCalls, runs, mintResult, answer, phase, in_address, env,
          result, fn, arg, out>>

wfVars == <<store, pc, state, txn, err, identity_data, cached, now, calls,
            namingCalls, runs, mintResult, answer>>

scVars == <<fn, arg, out>>

azVars == <<phase, in_address, env, result, scVars>>

-----------------------------------------------------------------------------
(* Bounds of the model *)

MaxRuns == 2
MaxClock == 3

-----------------------------------------------------------------------------
(* Optional values *)

None == << >>
Some(v) == <<v>>

-----------------------------------------------------------------------------
(* analysis.py *)

\* CONTRACTS: the configured token contracts, in dict order.
CONTRACTS == <<"BRETT", "TOSHI", "DEGEN", "AERO", "USDC", "BASE_PAINT">>

TokenNames == {CONTRACTS[i] : i \in 1..Len(CONTRACTS)}

\* 10**18 wei, in the model's unit of 10**16 wei.
WeiPerEth == 10 * 10

\* balance_wei / 10**18
DivWei(wei) == [num |-> wei, den |-> WeiPerEth]

\* q >= a/b for a float q kept as a fraction
FracGE(q, a, b) == q.num * b >= a * q.den

\* q > 0
FracPos(q) == q.num > 0

\* Spellings of wallet addresses a caller can type.  "0xab" is the
\* lower-case spelling of the wallet whose checksummed form is "0xAb".
ValidSpellings == {"0xab", "0xAb", "0xCd"}

\* w3.is_address
is_address(a) == a \in ValidSpellings

\* Variant of to_checksum_address: the address is kept as typed.
to_checksum_address_AsTyped(a) == a

\* w3.to_checksum_address
to_checksum_address(a) == IF a = "0xab" THEN "0xAb" ELSE a

ConnectFailed ==
    [type |-> "ConnectionError", msg |-> "Failed to connect to Base Mainnet RPC"]

InvalidAddress ==
    [type |-> "ValueError", msg |-> "Invalid wallet address"]

FetchFailed ==
    [type |-> "ConnectionError", msg |-> "Failed to fetch wallet data"]

\* A provider read either raises or returns an integer.
Raises == [raises |-> TRUE, val |-> 0]
Returns(v) == [raises |-> FALSE, val |-> v]

\* get_token_balance: the balanceOf call of one contract; every exception
\* is swallowed and gives 0.0.
get_token_balance(e, token) ==
    IF e.tokens[token].raises THEN DivWei(0)
    ELSE DivWei(e.tokens[token].val)

\* Variant of calculate_wealth_score: the lower bounds are exclusive.
calculate_wealth_score_Exclusive(eth_balance) ==
    IF ~FracGE(eth_balance, 10, 1) \/ eth_balance.num = 10 * eth_balance.den
    THEN IF ~FracGE(eth_balance, 1, 1) \/ eth_balance.num = eth_balance.den
         THEN IF ~FracGE(eth_balance, 1, 10)
                 \/ 10 * eth_balance.num = eth_balance.den
              THEN 20
              ELSE 50
         ELSE 80
    ELSE 100

calculate_wealth_score(eth_balance) ==
    IF FracGE(eth_balance, 10, 1) THEN 100
    ELSE IF FracGE(eth_balance, 1, 1) THEN 80
    ELSE IF FracGE(eth_balance, 1, 10) THEN 50
    ELSE 20

\* Variant of calculate_vitality_score: the band from 500 is missing.
calculate_vitality_score_NoBand500(tx_count) ==
    IF tx_count >= 1000 THEN 100
    ELSE IF tx_count >= 100 THEN 60
    ELSE IF tx_count >= 20 THEN 40
    ELSE 10

calculate_vitality_score(tx_count) ==
    IF tx_count >= 1000 THEN 100
    ELSE IF tx_count >= 500 THEN 85
    ELSE IF tx_count >= 100 THEN 60
    ELSE IF tx_count >= 20 THEN 40
    ELSE 10

Min(a, b) == IF a <= b THEN a ELSE b

\* Variant of calculate_community_score: every entry counts.
calculate_community_score_CountsAll(holdings) ==
    Min(100, 20 * Cardinality(DOMAIN holdings))

\* +20 for each entry of holdings with balance > 0, at most 100
calculate_community_score(holdings) ==
    Min(100, 20 * Cardinality({t \in DOMAIN holdings : FracPos(holdings[t])}))

\* Variant of calculate_tier: the lower bounds are exclusive.
calculate_tier_Exclusive(final_score10) ==
    IF final_score10 > 850 THEN "GODLY"
    ELSE IF final_score10 > 650 THEN "LEGENDARY"
    ELSE IF final_score10 > 400 THEN "RARE"
    ELSE "COMMON"

\* final_score is in tenths: the thresholds 85, 65, 40 are 850, 650, 400
calculate_tier(final_score10) ==
    IF final_score10 >= 850 THEN "GODLY"
    ELSE IF final_score10 >= 650 THEN "LEGENDARY"
    ELSE IF final_score10 >= 400 THEN "RARE"
    ELSE "COMMON"

\* Variant of FinalScore10: the weights are 0.3, 0.4 and 0.4.
FinalScore10_HeavyCommunity(w, v, c) == 3 * w + 4 * v + 4 * c

\* (wealth * 0.3) + (vitality * 0.4) + (community * 0.3), in tenths
FinalScore10(w, v, c) == 3 * w + 4 * v + 3 * c

\* Variant of Holdings: the loop ends at the first contract whose call
\* fails.
Holdings_StopAtFailure(e) ==
    LET reached(i) == \A j \in 1..i : ~e.tokens[CONTRACTS[j]].raises
        held == {CONTRACTS[i] : i \in {j \in 1..Len(CONTRACTS) :
                    reached(j) /\ e.tokens[CONTRACTS[j]].val > 0}}
    IN  [t \in held |-> DivWei(e.tokens[t].val)]

\* Variant of Holdings: every token whose call returned is kept.
Holdings_KeepsZero(e) ==
    LET held == {t \in TokenNames : ~e.tokens[t].raises}
    IN  [t \in held |-> get_token_balance(e, t)]

\* The loop over CONTRACTS: a token is kept when its balance is > 0.
Holdings(e) ==
    LET held == {t \in TokenNames : FracPos(get_token_balance(e, t))}
    IN  [t \in held |-> get_token_balance(e, t)]

\* Variant of FetchHardData: a failed read is replaced by zero.
FetchHardData_ZeroFill(e) ==
    [ok |-> TRUE,
     eth_balance |-> DivWei(IF e.balance.raises THEN 0 ELSE e.balance.val),
     tx_count |-> IF e.tx.raises THEN 0 ELSE e.tx.val,
     net |-> <<"get_balance", "get_transaction_count">>]

\* The try block around get_balance and get_transaction_count.  get_balance
\* is called first; get_transaction_count only when it returned.
FetchHardData(e) ==
    IF e.balance.raises
    THEN [ok |-> FALSE, eth_balance |-> DivWei(0), tx_count |-> 0,
          net |-> <<"get_balance">>]
    ELSE IF e.tx.raises
    THEN [ok |-> FALSE, eth_balance |-> DivWei(0), tx_count |-> 0,
          net |-> <<"get_balance", "get_transaction_count">>]
    ELSE [ok |-> TRUE, eth_balance |-> DivWei(e.balance.val),
          tx_count |-> e.tx.val,
          net |-> <<"get_balance", "get_transaction_count">>]

NoStats ==
    [address |-> "", eth_balance |-> DivWei(0), tx_count |-> 0,
     holdings |-> << >>, wealth_score |-> 0, vitality_score |-> 0,
     community_score |-> 0, final_score |-> 0, tier |-> ""]

Failure(error, net) ==
    [ok |-> FALSE, error |-> Some(error), stats |-> NoStats, net |-> net]

\* Variant of WalletStats: the tier is taken from the wealth score alone.
WalletStats_TierFromWealth(address, hard, holdings) ==
    LET w == calculate_wealth_score(hard.eth_balance)
        v == calculate_vitality_score(hard.tx_count)
        c == calculate_community_score(holdings)
        f == FinalScore10(w, v, c)
    IN  [address |-> address, eth_balance |-> hard.eth_balance,
         tx_count |-> hard.tx_count, holdings |-> holdings,
         wealth_score |-> w, vitality_score |-> v, community_score |-> c,
         final_score |-> f, tier |-> calculate_tier(10 * w)]

\* The WalletStats built when every read succeeded.
WalletStats(address, hard, holdings) ==
    LET w == calculate_wealth_score(hard.eth_balance)
        v == calculate_vitality_score(hard.tx_count)
        c == calculate_community_score(holdings)
        f == FinalScore10(w, v, c)
    IN  [address |-> address, eth_balance |-> hard.eth_balance,
         tx_count |-> hard.tx_count, holdings |-> holdings,
         wealth_score |-> w, vitality_score |-> v, community_score |-> c,
         final_score |-> f, tier |-> calculate_tier(f)]

\* One balanceOf call per configured contract.
TokenCalls == [i \in 1..Len(CONTRACTS) |-> "balanceOf"]

\* analyze_wallet(address) against a provider answering as e.  `net` is the
\* sequence of network calls the function made.
analyze_wallet(address, e) ==
    IF ~e.connected THEN Failure(ConnectFailed, <<"is_connected">>)
    ELSE IF ~is_address(address)
    THEN Failure(InvalidAddress, <<"is_connected">>)
    ELSE LET hard == FetchHardData(e)
         IN  IF ~hard.ok
             THEN Failure(FetchFailed, <<"is_connected">> \o hard.net)
             ELSE [ok |-> TRUE, error |-> None,
                   stats |-> WalletStats(address, hard, Holdings(e)),
                   net |-> <<"is_connected">> \o hard.net \o TokenCalls]

-----------------------------------------------------------------------------
(* database.py *)

\* data.get(key, default) / result.get(key, default) on a dict
Get(d, key, default) == IF key \in DOMAIN d THEN d[key] ELSE default

\* Variant of get_identity: the lookup never finds a row.
get_identity_Miss(a) == None

\* get_identity: session.query(Identity).filter(address == a).first()
get_identity(a) == IF a \in DOMAIN store THEN Some(store[a]) ELSE None

\* The NOT NULL columns a save_identity call writes from `data`.
NotNullOk(data) ==
    /\ data["name"] /= None
    /\ data["verdict"] /= None

\* Variant of UpdateExisting: the mint columns are written from defaults
\* when `data` has no mint keys.
UpdateExisting_ResetMint(existing, data, t) ==
    [existing EXCEPT
        !.name = data["name"],
        !.tier = data["tier"],
        !.verdict = data["verdict"],
        !.stats = data["stats"],
        !.scores = data["scores"],
        !.minted = Get(data, "minted", FALSE),
        !.mint_tx_hash = Get(data, "mint_tx_hash", None),
        !.minted_at = Get(data, "minted_at", None),
        !.created_at = t]

\* save_identity, existing row: the assignments of the update branch.
UpdateExisting(existing, data, t) ==
    [existing EXCEPT
        !.name = data["name"],
        !.tier = data["tier"],
        !.verdict = data["verdict"],
        !.stats = data["stats"],
        !.scores = data["scores"],
        !.minted = IF "minted" \in DOMAIN data
                   THEN data["minted"] ELSE existing.minted,
        !.mint_tx_hash = IF "mint_tx_hash" \in DOMAIN data
                         THEN data["mint_tx_hash"] ELSE existing.mint_tx_hash,
        !.minted_at = IF "minted_at" \in DOMAIN data
                      THEN data["minted_at"] ELSE existing.minted_at,
        !.created_at = t]

\* save_identity, no existing row: the Identity(...) that is inserted.
NewIdentity(data, t) ==
    [address |-> data["address"],
     name |-> data["name"],
     tier |-> data["tier"],
     verdict |-> data["verdict"],
     stats |-> data["stats"],
     scores |-> data["scores"],
     minted |-> Get(data, "minted", FALSE),
     mint_tx_hash |-> Get(data, "mint_tx_hash", None),
     minted_at |-> Get(data, "minted_at", None),
     created_at |-> t]

\* Variant of Minted: the hash and the time are stored, the flag is not set.
Minted_HashOnly(identity, tx_hash, t) ==
    [identity EXCEPT !.mint_tx_hash = Some(tx_hash),
                     !.minted_at = Some(t)]

\* Variant of Minted: the flag is toggled instead of set.
Minted_Toggle(identity, tx_hash, t) ==
    [identity EXCEPT !.minted = ~identity.minted,
                     !.mint_tx_hash = Some(tx_hash),
                     !.minted_at = Some(t)]

\* Variant of Minted: a hash already stored is kept.
Minted_FirstHashWins(identity, tx_hash, t) ==
    [identity EXCEPT !.minted = TRUE,
                     !.mint_tx_hash = IF identity.mint_tx_hash = None
                                      THEN Some(tx_hash)
                                      ELSE identity.mint_tx_hash,
                     !.minted_at = Some(t)]

\* mark_as_minted, row found: the three assignments.
Minted(identity, tx_hash, t) ==
    [identity EXCEPT !.minted = TRUE,
                     !.mint_tx_hash = Some(tx_hash),
                     !.minted_at = Some(t)]

\* Variant of FlushUpdate: the UPDATE writes every column of the object as
\* the session holds it.
FlushUpdate_AllColumns(current, loaded, obj) == obj

\* session.commit() of a loaded object that was assigned to: the unit of
\* work emits UPDATE ... SET for the columns whose value differs from the
\* value the query loaded, and the other columns of the row stay as the
\* table holds them.  The SELECT of the query opens no transaction in
\* SQLite, so the row may have been rewritten since it was loaded.
FlushUpdate(current, loaded, obj) ==
    LET set(new, old, cur) == IF new /= old THEN new ELSE cur
    IN  [current EXCEPT
           !.name = set(obj.name, loaded.name, @),
           !.tier = set(obj.tier, loaded.tier, @),
           !.verdict = set(obj.verdict, loaded.verdict, @),
           !.stats = set(obj.stats, loaded.stats, @),
           !.scores = set(obj.scores, loaded.scores, @),
           !.minted = set(obj.minted, loaded.minted, @),
           !.mint_tx_hash = set(obj.mint_tx_hash, loaded.mint_tx_hash, @),
           !.minted_at = set(obj.minted_at, loaded.minted_at, @),
           !.created_at = set(obj.created_at, loaded.created_at, @)]

IntegrityNull ==
    [stage |-> "save", type |-> "IntegrityError",
     msg |-> "NOT NULL constraint failed"]

IntegrityUnique ==
    [stage |-> "save", type |-> "IntegrityError",
     msg |-> "UNIQUE constraint failed: identities.address"]

WriteFailed ==
    [stage |-> "save", type |-> "OperationalError",
     msg |-> "database is locked"]

-----------------------------------------------------------------------------
(* graph.py *)

Lower(tier) ==
    CASE tier = "GODLY" -> "godly"
      [] tier = "LEGENDARY" -> "legendary"
      [] tier = "RARE" -> "rare"
      [] tier = "COMMON" -> "common"
      [] OTHER -> tier

\* The except branch of identity_node.
FallbackName(tier) == "Base " \o tier \o " Wallet"

\* Variant of FallbackVerdict: the tier is not lower-cased.
FallbackVerdict_NoLower(tier, tx_count) ==
    "A " \o tier \o " tier wallet on Base with "
        \o ToString(tx_count) \o " transactions."

FallbackVerdict(tier, tx_count) ==
    "A " \o Lower(tier) \o " tier wallet on Base with "
        \o ToString(tx_count) \o " transactions."

\* The try/except of identity_node.  o is what chain.invoke did: it raised
\* (the model call failed), the parser raised (output that is not JSON), it
\* returned JSON that is no object (result.get raises AttributeError), or it
\* returned a JSON object o.obj.
Named(tier, tx_count, o) ==
    IF o.kind = "object"
    THEN [name |-> Get(o.obj, "name", Some("Unknown Identity")),
          verdict |-> Get(o.obj, "verdict", Some("A wallet on Base."))]
    ELSE [name |-> Some(FallbackName(tier)),
          verdict |-> Some(FallbackVerdict(tier, tx_count))]

\* save_node: the dict handed to save_identity.
SaveData(st) ==
    [k \in {"address", "name", "tier", "verdict", "stats", "scores"} |->
        CASE k = "address" -> st.address
          [] k = "name" -> st.name
          [] k = "tier" -> st.tier
          [] k = "verdict" -> st.verdict
          [] k = "stats" -> [eth_balance |-> st.wallet_stats.eth_balance,
                             tx_count |-> st.wallet_stats.tx_count,
                             holdings |-> st.wallet_stats.holdings]
          [] k = "scores" ->
                [wealth_score |-> st.wallet_stats.wealth_score,
                 vitality_score |-> st.wallet_stats.vitality_score,
                 community_score |-> st.wallet_stats.community_score,
                 final_score |-> st.wallet_stats.final_score]]

-----------------------------------------------------------------------------
(* The environment the model draws from *)

Reqs == {1, 2}

\* What a caller may type into the address box.
Inputs == ValidSpellings \cup {"0xzz", ""}

TxHashes == {"0xabc", "0xdef"}

AllReturn(v) == [t \in TokenNames |-> Returns(v)]

\* Provider answers for the analyze_wallet harness: every combination of a
\* failing, an empty and a positive balanceOf over the six contracts.
AnalyzeEnvs ==
    [connected : BOOLEAN,
     balance : {Raises, Returns(0), Returns(5), Returns(1250)},
     tx : {Raises, Returns(0), Returns(5), Returns(1200)},
     tokens : [TokenNames -> {Raises, Returns(0), Returns(300)}]]

\* Provider answers for the workflow: the two wallets of the scenarios
\* (12.5 ETH / 1200 transactions / one token held, with another contract
\* failing; 0.05 ETH / 5 transactions / nothing held) and a failing read of
\* the balance or of the transaction count, each with the provider
\* reachable or not.
WorkflowEnvs ==
    {[connected |-> c, balance |-> h[1], tx |-> h[2], tokens |-> h[3]] :
        c \in BOOLEAN,
        h \in {<<Returns(1250), Returns(1200),
                 [AllReturn(0) EXCEPT !["BRETT"] = Returns(300),
                                      !["USDC"] = Raises]>>,
               <<Returns(5), Returns(5), AllReturn(0)>>,
               <<Raises, Returns(5), AllReturn(0)>>,
               <<Returns(5), Raises, AllReturn(0)>>}}

\* JSON objects the naming model may answer with: each of the keys "name"
\* and "verdict" is missing, null, the empty string or a text.
JsonTexts(k) ==
    {None, Some(""),
     Some(IF k = "name" THEN "Apex Titan" ELSE "A legend of Base.")}

OracleObjects ==
    UNION {{o \in [keys -> {None, Some(""), Some("Apex Titan"),
                             Some("A legend of Base.")}] :
               \A k \in keys : o[k] \in JsonTexts(k)} :
           keys \in SUBSET {"name", "verdict"}}

NoObject == [k \in {} |-> None]

\* The outcomes the concurrent workflow draws from: the model call raises,
\* or answers with both keys.
CoreOutcomes ==
    {[kind |-> "raises", obj |-> NoObject],
     [kind |-> "object",
      obj |-> [k \in {"name", "verdict"} |->
        IF k = "name" THEN Some("Apex Titan") ELSE Some("A legend of Base.")]]}

OracleOutcomes ==
    {[kind |-> k, obj |-> NoObject] : k \in {"raises", "not_json", "not_object"}}
    \cup {[kind |-> "object", obj |-> o] : o \in OracleObjects}

-----------------------------------------------------------------------------
(* app.py and graph.py: one request *)

NoCalls == [chain |-> 0, oracle |-> 0, writes |-> 0]

NoErr == [stage |-> "", type |-> "", msg |-> ""]

InitialState(address) ==
    [address |-> address, wallet_stats |-> NoStats,
     name |-> Some(""), verdict |-> Some(""), tier |-> ""]

\* save_identity's session before its query: nothing loaded.
NoTxn == [existing |-> FALSE, created_at |-> 0, loaded |-> None]

\* st.error(...) and st.stop(): only the message outlives the run.
Stop(r, e) ==
    /\ pc' = [pc EXCEPT ![r] = "stopped"]
    /\ err' = [err EXCEPT ![r] = e]
    /\ state' = [state EXCEPT ![r] = InitialState(state[r].address)]
    /\ txn' = [txn EXCEPT ![r] = NoTxn]
    /\ answer' = [answer EXCEPT ![r] = None]

\* app.main, the button handler up to the cache check (lines 256-270).
Generate(r, input) ==
    /\ pc[r] \in {"idle", "shown", "stopped"}
    /\ runs < MaxRuns
    /\ runs' = runs + 1
    /\ calls' = [calls EXCEPT ![r] = NoCalls]
    /\ IF input = ""
       THEN /\ pc' = [pc EXCEPT ![r] = "stopped"]
            /\ err' = [err EXCEPT ![r] = [stage |-> "input", type |-> "",
                            msg |-> "Please enter a wallet address"]]
            /\ state' = [state EXCEPT ![r] = InitialState("")]
            /\ identity_data' = [identity_data EXCEPT ![r] = None]
            /\ cached' = [cached EXCEPT ![r] = FALSE]
       ELSE IF ~is_address(input)
       THEN /\ pc' = [pc EXCEPT ![r] = "stopped"]
            /\ err' = [err EXCEPT ![r] = [stage |-> "input", type |-> "",
                            msg |-> "Invalid wallet address format"]]
            /\ state' = [state EXCEPT ![r] = InitialState("")]
            /\ identity_data' = [identity_data EXCEPT ![r] = None]
            /\ cached' = [cached EXCEPT ![r] = FALSE]
       ELSE LET address == to_checksum_address(input)
                existing == get_identity(address)
            IN  /\ state' = [state EXCEPT ![r] = InitialState(address)]
                /\ err' = [err EXCEPT ![r] = NoErr]
                /\ IF existing /= None
                   THEN /\ identity_data' = [identity_data EXCEPT ![r] = existing]
                        /\ cached' = [cached EXCEPT ![r] = TRUE]
                        /\ pc' = [pc EXCEPT ![r] = "shown"]
                   ELSE /\ identity_data' = [identity_data EXCEPT ![r] = None]
                        /\ cached' = [cached EXCEPT ![r] = FALSE]
                        /\ pc' = [pc EXCEPT ![r] = "analyst"]
    /\ UNCHANGED <<store, txn, now, namingCalls, mintResult, answer, azVars>>

\* Variant of Edge: the analyst node is wired to the save node.
Edge_SkipsIdentity(node) ==
    CASE node = "analyst" -> "save"
      [] node = "identity" -> "save"
      [] node = "save" -> "reload"

\* The edges of the compiled graph: analyst -> identity -> save -> END.
\* After END graph.invoke returns and app.main reloads the row.
Edge(node) ==
    CASE node = "analyst" -> "identity"
      [] node = "identity" -> "save"
      [] node = "save" -> "reload"

\* analyst_node, given the outcome a of analyze_wallet.
Analysed(st, a) ==
    [st EXCEPT !.wallet_stats = a.stats, !.tier = a.stats.tier]

\* Variant of Raised: the node swallows the exception and goes on.
Raised_Swallowed(a) == FALSE

\* analyze_wallet raised: analyst_node has no handler, so the node raises
\* and graph.invoke raises out of the graph.
Raised(a) == ~a.ok

analyst_node(r) ==
    /\ pc[r] = "analyst"
    /\ \E e \in WorkflowEnvs :
          LET a == analyze_wallet(state[r].address, e)
          IN  /\ calls' = [calls EXCEPT ![r].chain = Len(a.net)]
              /\ IF ~Raised(a)
                 THEN /\ state' = [state EXCEPT ![r] = Analysed(state[r], a)]
                      /\ pc' = [pc EXCEPT ![r] = Edge("analyst")]
                      /\ UNCHANGED <<err, txn, answer>>
                 ELSE Stop(r, [stage |-> "analyst", type |-> a.error[1].type,
                               msg |-> a.error[1].msg])
    /\ UNCHANGED <<store, identity_data, cached, now, namingCalls, runs,
                   mintResult, azVars>>

\* identity_node.  The ChatGoogleGenerativeAI client is constructed before
\* the try block; when the constructor raises, the node raises.
identity_node(r, outcomes) ==
    /\ pc[r] = "identity"
    /\ \E built \in BOOLEAN, o \in outcomes :
          IF ~built
          THEN /\ Stop(r, [stage |-> "identity", type |-> "ValueError",
                           msg |-> "model client could not be constructed"])
               /\ UNCHANGED <<calls, namingCalls>>
          ELSE LET n == Named(state[r].tier, state[r].wallet_stats.tx_count, o)
               IN  /\ state' = [state EXCEPT ![r].name = n.name,
                                             ![r].verdict = n.verdict]
                   /\ calls' = [calls EXCEPT ![r].oracle = @ + 1]
                   /\ namingCalls' =
                        [namingCalls EXCEPT ![state[r].address] = @ + 1]
                   /\ pc' = [pc EXCEPT ![r] = Edge("identity")]
                   /\ answer' = [answer EXCEPT ![r] = Some(o)]
                   /\ UNCHANGED <<err, txn>>
    /\ UNCHANGED <<store, identity_data, cached, now, runs, mintResult,
                   azVars>>

\* save_node -> save_identity, lines 48-85: the query for the existing row
\* and the assignments on the session's objects (created_at is taken here).
save_query(r) ==
    /\ pc[r] = "save"
    /\ now < MaxClock
    /\ LET existing == get_identity(SaveData(state[r])["address"])
       IN  txn' = [txn EXCEPT ![r] =
                     [existing |-> existing /= None,
                      created_at |-> now,
                      loaded |-> existing]]
    /\ now' = now + 1
    /\ pc' = [pc EXCEPT ![r] = "commit"]
    /\ UNCHANGED <<store, state, err, identity_data, cached, calls,
                   namingCalls, runs, mintResult, answer, azVars>>

\* The table after session.commit() of an update of row a succeeded: the
\* assignments were made on the object the query loaded, and the UPDATE is
\* applied to the row as the table holds it now.
CommitUpdate(a, loaded, data, t) ==
    [store EXCEPT ![a] = FlushUpdate(store[a], loaded,
                                     UpdateExisting(loaded, data, t))]

\* The table after session.commit() of the insert of row a succeeded.
CommitInsert(a, data, t) ==
    [k \in DOMAIN store \cup {a} |->
        IF k = a THEN NewIdentity(data, t) ELSE store[k]]

\* Variant of Rollback: what the session had flushed stays in the table.
Rollback_KeepsFlushed(table, pending) == pending

\* session.rollback() in the except branch: the table is as it was before
\* the session wrote; `pending` is what the commit would have made of it.
Rollback(table, pending) == table

\* save_identity, lines 87-93: session.commit(); on any exception the
\* session is rolled back and the exception re-raised, which ends the run.
save_commit(r) ==
    /\ pc[r] = "commit"
    /\ LET data == SaveData(state[r])
           a == data["address"]
           done(table) ==
               /\ store' = table
               /\ calls' = [calls EXCEPT ![r].writes = @ + 1]
               /\ pc' = [pc EXCEPT ![r] = Edge("save")]
               /\ state' = [state EXCEPT ![r] = InitialState(a)]
               /\ txn' = [txn EXCEPT ![r] = NoTxn]
               /\ UNCHANGED <<err, answer>>
           pending ==
               IF ~txn[r].existing
               THEN CommitInsert(a, data, txn[r].created_at)
               ELSE CommitUpdate(a, txn[r].loaded[1], data,
                                 txn[r].created_at)
           raise(e) ==
               /\ Stop(r, e)
               /\ store' = Rollback(store, pending)
               /\ UNCHANGED calls
       IN  \E written \in BOOLEAN :
              IF ~written THEN raise(WriteFailed)
              ELSE IF ~NotNullOk(data) THEN raise(IntegrityNull)
              ELSE IF txn[r].existing
              THEN done(CommitUpdate(a, txn[r].loaded[1], data,
                                     txn[r].created_at))
              ELSE IF a \in DOMAIN store THEN raise(IntegrityUnique)
              ELSE done(CommitInsert(a, data, txn[r].created_at))
    /\ UNCHANGED <<identity_data, cached, now, namingCalls, runs,
                   mintResult, azVars>>

\* app.main after graph.invoke returned: identity_data = get_identity(address)
reload(r) ==
    /\ pc[r] = "reload"
    /\ identity_data' = [identity_data EXCEPT ![r] = get_identity(state[r].address)]
    /\ cached' = [cached EXCEPT ![r] = FALSE]
    /\ pc' = [pc EXCEPT ![r] = "shown"]
    /\ answer' = [answer EXCEPT ![r] = None]
    /\ UNCHANGED <<store, state, txn, err, now, calls, namingCalls, runs,
                   mintResult, azVars>>

\* mark_as_minted(address, tx_hash): its effect on the table.
MarkRow(address, tx_hash) ==
    IF address \in DOMAIN store
    THEN /\ now < MaxClock
         /\ store' = [store EXCEPT ![address] = Minted(store[address], tx_hash, now)]
         /\ now' = now + 1
    ELSE UNCHANGED <<store, now>>

\* mark_as_minted(address, tx_hash): True when the row was found.
mark_as_minted(address, tx_hash) ==
    /\ MarkRow(address, tx_hash)
    /\ mintResult' = Some(address \in DOMAIN store)
    /\ UNCHANGED <<pc, state, txn, err, identity_data, cached, calls,
                   namingCalls, runs, answer, azVars>>

\* app.main, the "Confirm Payment" button: mark_as_minted is called with a
\* non-empty hash and its return value is dropped.
confirm_payment(address, tx_hash) ==
    /\ MarkRow(address, tx_hash)
    /\ UNCHANGED <<pc, state, txn, err, identity_data, cached, calls,
                   namingCalls, runs, mintResult, answer, azVars>>

-----------------------------------------------------------------------------
(* The workflow specification *)

\* Arguments and return value of the scoring functions; final_score is in
\* tenths, eth_balance a fraction, sub the three sub-scores.
NoArgs ==
    [final_score |-> 0, eth_balance |-> DivWei(0), tx_count |-> 0,
     holdings |-> << >>, sub |-> <<0, 0, 0>>]

NoOut == [score |-> 0 - 1, tier |-> ""]

ScIdle ==
    /\ fn = ""
    /\ arg = NoArgs
    /\ out = NoOut

AzIdle ==
    /\ phase = "off"
    /\ in_address = ""
    /\ env = [connected |-> TRUE, balance |-> Returns(0), tx |-> Returns(0),
              tokens |-> AllReturn(0)]
    /\ result = Failure(NoErr, << >>)
    /\ ScIdle

WfInit ==
    /\ store = [k \in {} |-> None]
    /\ pc = [r \in Reqs |-> "idle"]
    /\ state = [r \in Reqs |-> InitialState("")]
    /\ txn = [r \in Reqs |-> NoTxn]
    /\ err = [r \in Reqs |-> NoErr]
    /\ identity_data = [r \in Reqs |-> None]
    /\ cached = [r \in Reqs |-> FALSE]
    /\ now = 0
    /\ calls = [r \in Reqs |-> NoCalls]
    /\ namingCalls = [a \in ValidSpellings |-> 0]
    /\ runs = 0
    /\ mintResult = None
    /\ answer = [r \in Reqs |-> None]

Init == WfInit /\ AzIdle

Next ==
    \/ \E r \in Reqs, input \in Inputs : Generate(r, input)
    \/ \E r \in Reqs : analyst_node(r)
    \/ \E r \in Reqs : identity_node(r, CoreOutcomes)
    \/ \E r \in Reqs : save_query(r)
    \/ \E r \in Reqs : save_commit(r)
    \/ \E r \in Reqs : reload(r)
    \/ \E a \in ValidSpellings, h \in TxHashes : confirm_payment(a, h)

Spec == Init /\ [][Next]_vars

-----------------------------------------------------------------------------
(* The naming specification: requests one after the other, the naming model
   answering in every way of OracleOutcomes *)

NextNaming ==
    \/ \E input \in Inputs : Generate(1, input)
    \/ analyst_node(1)
    \/ identity_node(1, OracleOutcomes)
    \/ save_query(1)
    \/ save_commit(1)
    \/ reload(1)
    \/ \E a \in ValidSpellings, h \in TxHashes : confirm_payment(a, h)

SpecNaming == Init /\ [][NextNaming]_vars

-----------------------------------------------------------------------------
(* The analyze_wallet specification: one call on any input and provider *)

AzInit ==
    /\ WfInit
    /\ phase = "input"
    /\ in_address \in {"0xab", "0xCd", "0xzz"}
    /\ env \in AnalyzeEnvs
    /\ result = Failure(NoErr, << >>)
    /\ ScIdle

AnalyzeCall ==
    /\ phase = "input"
    /\ result' = analyze_wallet(in_address, env)
    /\ phase' = "returned"
    /\ UNCHANGED <<in_address, env, wfVars, scVars>>

SpecAnalyze == AzInit /\ [][AnalyzeCall]_vars

-----------------------------------------------------------------------------
(* The minting specification: requests one after the other, and calls of
   mark_as_minted whose return value is kept *)

NextMint ==
    \/ \E input \in Inputs : Generate(1, input)
    \/ analyst_node(1)
    \/ identity_node(1, CoreOutcomes)
    \/ save_query(1)
    \/ save_commit(1)
    \/ reload(1)
    \/ \E a \in ValidSpellings, h \in TxHashes : mark_as_minted(a, h)

SpecMint == Init /\ [][NextMint]_vars

-----------------------------------------------------------------------------
(* The upsert specification: two save_node calls for one address, each about
   to call save_identity, on a table that holds no row or one row for it *)

UpsertAddress == "0xAb"

\* Provider answers for one wallet read at different times: the wallets of
\* WorkflowEnvs, and the first of them after it has spent 1.5 ETH and after
\* it has spent all but 0.05 ETH.
UpsertEnvs ==
    WorkflowEnvs \cup
    {[connected |-> TRUE, balance |-> Returns(b), tx |-> Returns(1200),
      tokens |-> [AllReturn(0) EXCEPT !["BRETT"] = Returns(300)]] :
        b \in {1100, 5}}

\* The statistics analyze_wallet returns for the wallets of UpsertEnvs.
UpsertStats ==
    {analyze_wallet(UpsertAddress, e).stats :
        e \in {w \in UpsertEnvs : analyze_wallet(UpsertAddress, w).ok}}

\* The GraphState a request may have reached save_node with.
UpsertCallers ==
    {[address |-> UpsertAddress, wallet_stats |-> s, name |-> Some(n),
      verdict |-> Some("A legend of Base."), tier |-> s.tier] :
        s \in UpsertStats, n \in {"Apex Titan", "Base Ghost"}}

UpsertInit ==
    /\ AzIdle
    /\ \E prior \in UpsertCallers :
          store \in {[k \in {} |-> None],
                     [k \in {UpsertAddress} |->
                         NewIdentity(SaveData(prior), 0)]}
    /\ pc = [r \in Reqs |-> "save"]
    /\ state \in [Reqs -> UpsertCallers]
    /\ txn = [r \in Reqs |-> NoTxn]
    /\ err = [r \in Reqs |-> NoErr]
    /\ identity_data = [r \in Reqs |-> None]
    /\ cached = [r \in Reqs |-> FALSE]
    /\ now = 1
    /\ calls = [r \in Reqs |-> [NoCalls EXCEPT !.oracle = 1]]
    /\ namingCalls = [a \in ValidSpellings |-> 0]
    /\ runs = 0
    /\ mintResult = None
    /\ answer = [r \in Reqs |-> None]

NextUpsert ==
    \/ \E r \in Reqs : save_query(r)
    \/ \E r \in Reqs : save_commit(r)

SpecUpsert == UpsertInit /\ [][NextUpsert]_vars

-----------------------------------------------------------------------------
(* The scoring specification: one call of one of the scoring functions *)

MaxWei == 1100
MaxTx == 1100

ScoreFns ==
    {"calculate_wealth_score", "calculate_vitality_score",
     "calculate_community_score", "final_score", "calculate_tier"}

\* Sub-scores in [0, 100]: every multiple of 5, which covers every value
\* the three step functions return.
SubScores == {x \in 0..100 : x % 5 = 0}

\* Holdings maps: any of the six tokens, each with a negative, a zero or a
\* positive balance.
HoldingsMaps ==
    UNION {[held -> {DivWei(0 - 1), DivWei(0), DivWei(300)}] :
             held \in SUBSET TokenNames}

ScoreArgs(f) ==
    CASE f = "calculate_wealth_score" ->
           {[NoArgs EXCEPT !.eth_balance = DivWei(wei)] : wei \in 0..MaxWei}
      [] f = "calculate_vitality_score" ->
           {[NoArgs EXCEPT !.tx_count = n] : n \in 0..MaxTx}
      [] f = "calculate_community_score" ->
           {[NoArgs EXCEPT !.holdings = h] : h \in HoldingsMaps}
      [] f = "final_score" ->
           {[NoArgs EXCEPT !.sub = <<w, v, c>>] :
               w \in SubScores, v \in SubScores, c \in SubScores}
      [] f = "calculate_tier" ->
           {[NoArgs EXCEPT !.final_score = x] : x \in 0..1000}

ScoreInit ==
    /\ WfInit
    /\ phase = "input"
    /\ in_address = ""
    /\ env = [connected |-> TRUE, balance |-> Returns(0), tx |-> Returns(0),
              tokens |-> AllReturn(0)]
    /\ result = Failure(NoErr, << >>)
    /\ fn \in ScoreFns
    /\ arg \in ScoreArgs(fn)
    /\ out = NoOut

ScoreCall ==
    /\ phase = "input"
    /\ out' =
         CASE fn = "calculate_wealth_score" ->
                [NoOut EXCEPT !.score = calculate_wealth_score(arg.eth_balance)]
           [] fn = "calculate_vitality_score" ->
                [NoOut EXCEPT !.score = calculate_vitality_score(arg.tx_count)]
           [] fn = "calculate_community_score" ->
                [NoOut EXCEPT !.score = calculate_community_score(arg.holdings)]
           [] fn = "final_score" ->
                [NoOut EXCEPT
                   !.score = FinalScore10(arg.sub[1], arg.sub[2], arg.sub[3])]
           [] fn = "calculate_tier" ->
                [NoOut EXCEPT !.tier = calculate_tier(arg.final_score)]
    /\ phase' = "returned"
    /\ UNCHANGED <<fn, arg, in_address, env, result, wfVars>>

SpecScoring == ScoreInit /\ [][ScoreCall]_vars

-----------------------------------------------------------------------------
(* The spelling specification: two requests for one wallet, request 1 typing
   its address in lower case and request 2 in checksum case *)

Spelling == [r \in Reqs |-> IF r = 1 THEN "0xab" ELSE "0xAb"]

NextSpelling ==
    \/ \E r \in Reqs : Generate(r, Spelling[r])
    \/ \E r \in Reqs : analyst_node(r)
    \/ \E r \in Reqs : identity_node(r, CoreOutcomes)
    \/ \E r \in Reqs : save_query(r)
    \/ \E r \in Reqs : save_commit(r)
    \/ \E r \in Reqs : reload(r)

SpecSpelling == Init /\ [][NextSpelling]_vars

-----------------------------------------------------------------------------
(* The re-run specification: the save_identity calls of the upsert
   specification, interleaved with mark_as_minted calls for the same row *)

NextRemint ==
    \/ \E r \in Reqs : save_query(r)
    \/ \E r \in Reqs : save_commit(r)
    \/ \E h \in TxHashes : mark_as_minted(UpsertAddress, h)

SpecRemint == UpsertInit /\ [][NextRemint]_vars

-----------------------------------------------------------------------------
(* Properties *)

\* The step in which request r's save_identity call commits.
Committed(r) == pc[r] = "commit" /\ pc'[r] = "reload"

MintFields(row) == <<row.minted, row.mint_tx_hash, row.minted_at>>

\* C1. Mint preservation: when a workflow run commits its save_identity on
\* an address whose row is minted, the row keeps minted = true, its
\* mint_tx_hash and its minted_at, and takes the run's name, tier, verdict,
\* stats and scores.
C1_MintPreservation ==
    [][\A r \in Reqs :
          LET a == state[r].address
              data == SaveData(state[r])
          IN  (Committed(r) /\ a \in DOMAIN store /\ store[a].minted) =>
                 /\ store'[a].minted = TRUE
                 /\ store'[a].mint_tx_hash = store[a].mint_tx_hash
                 /\ store'[a].minted_at = store[a].minted_at
                 /\ store'[a].name = data["name"]
                 /\ store'[a].tier = data["tier"]
                 /\ store'[a].verdict = data["verdict"]
                 /\ store'[a].stats = data["stats"]
                 /\ store'[a].scores = data["scores"]]_vars

\* A run has just committed over a row that was minted before the run
\* queried it.
C1_Witness ==
    \E r \in Reqs :
        /\ pc[r] = "reload"
        /\ state[r].address \in DOMAIN store
        /\ store[state[r].address].minted
        /\ store[state[r].address].minted_at /= None
        /\ store[state[r].address].created_at
             > store[state[r].address].minted_at[1]

\* C2. Minted status is stable: no step removes a row, a minted row stays
\* minted, and a step that changes minted, mint_tx_hash or minted_at of a
\* row is a mark_as_minted call on that row.
C2_MintedStable ==
    [][\A a \in DOMAIN store :
          /\ a \in DOMAIN store'
          /\ store[a].minted => store'[a].minted
          /\ MintFields(store'[a]) /= MintFields(store[a]) =>
                \E h \in TxHashes : confirm_payment(a, h)]_vars

\* A row is marked as minted a second time, with another hash, after a
\* cache-hit lookup displayed it as minted.
C2_Witness ==
    \E r \in Reqs :
        /\ pc[r] = "shown"
        /\ cached[r]
        /\ identity_data[r] /= None
        /\ identity_data[r][1].minted
        /\ store[state[r].address].minted
        /\ store[state[r].address].mint_tx_hash /= identity_data[r][1].mint_tx_hash

\* C3. Cache hit: a request for an address that has a row displays that row
\* and runs no stage (no provider call, no naming call, no write); a request
\* that went through the pipeline and displays its row made exactly one
\* naming call, so two requests one after the other make one in total.
C3_CacheHit ==
    [][/\ \A r \in Reqs, input \in ValidSpellings :
            LET a == to_checksum_address(input)
            IN  (Generate(r, input) /\ a \in DOMAIN store) =>
                   /\ pc'[r] = "shown"
                   /\ cached'[r]
                   /\ identity_data'[r] = Some(store[a])
                   /\ store' = store
                   /\ namingCalls' = namingCalls
       /\ \A r \in Reqs :
            /\ (pc'[r] = "shown" /\ cached'[r]) => calls'[r] = NoCalls
            /\ (pc'[r] = "shown" /\ ~cached'[r]) =>
                  calls'[r].oracle = 1 /\ calls'[r].writes = 1]_vars

\* The second of two requests has been answered from the table, and one
\* naming call was made for its address.
C3_Witness ==
    \E r \in Reqs :
        /\ runs = 2
        /\ pc[r] = "shown"
        /\ cached[r]
        /\ identity_data[r] = Some(store[state[r].address])
        /\ namingCalls[state[r].address] = 1

\* C4. At most one naming call per address, over any interleaving of
\* requests for it.
C4_AtMostOneNamingCall ==
    \A a \in ValidSpellings : namingCalls[a] <= 1

\* C5. Naming is a soft failure: no run ends in the naming stage, and no
\* run ends because the naming model's answer could not be stored.
C5_NamingNeverAborts ==
    \A r \in Reqs :
        pc[r] = "stopped" => err[r].stage /= "identity" /\ err[r] /= IntegrityNull

\* The answers of the naming model that C6 is about: the call raised, the
\* output was not JSON, or the object lacks the name or the verdict key.
NamingFailed(o) ==
    \/ o.kind \in {"raises", "not_json"}
    \/ o.kind = "object" /\ DOMAIN o.obj /= {"name", "verdict"}

\* The row request r has just committed.
Persisted(r) == store[state[r].address]

C7_AnalyzeFailurePersistsNothing ==
    [][\A r \in Reqs :
          /\ (pc[r] = "analyst" /\ pc'[r] /= "analyst") =>
                \/ /\ pc'[r] = "identity"
                   /\ \E e \in WorkflowEnvs :
                         /\ analyze_wallet(state[r].address, e).ok
                         /\ state'[r].wallet_stats
                              = analyze_wallet(state[r].address, e).stats
                \/ /\ pc'[r] = "stopped"
                   /\ err'[r].stage = "analyst"
                   /\ \E e \in WorkflowEnvs :
                         /\ ~analyze_wallet(state[r].address, e).ok
                         /\ err'[r].msg
                              = analyze_wallet(state[r].address, e).error[1].msg
                   /\ store' = store
                   /\ namingCalls' = namingCalls
          /\ (pc'[r] = "stopped" /\ err'[r].stage = "analyst") =>
                calls'[r].oracle = 0 /\ calls'[r].writes = 0]_vars

\* A request stopped in the analyst stage while the table holds a row.
C7_Witness ==
    \E r \in Reqs :
        /\ pc[r] = "stopped"
        /\ err[r].stage = "analyst"
        /\ err[r].msg = FetchFailed.msg
        /\ DOMAIN store /= {}

\* C8. Invalid address fails fast: analyze_wallet on an address that is not
\* valid fails with the invalid-address error and makes no network call.
C8_InvalidAddressFailsFast ==
    (phase = "returned" /\ ~is_address(in_address)) =>
        /\ result.error = Some(InvalidAddress)
        /\ result.net = << >>

\* C9. No zero-fill: with the provider reachable and the address valid, a
\* failing read of the balance or of the transaction count makes
\* analyze_wallet fail with the data-fetch error, which is not the error of
\* an unreachable provider, and no statistics are returned.
C9_NoZeroFill ==
    (/\ phase = "returned"
     /\ env.connected
     /\ is_address(in_address)
     /\ env.balance.raises \/ env.tx.raises) =>
        /\ ~result.ok
        /\ result.error = Some(FetchFailed)
        /\ result.error /= Some(ConnectFailed)
        /\ result.stats = NoStats

\* The balance was read and the read of the transaction count failed.
C9_Witness ==
    /\ phase = "returned"
    /\ env.connected
    /\ is_address(in_address)
    /\ ~env.balance.raises
    /\ env.tx.raises
    /\ ~result.ok

\* C10. Token isolation: with the provider reachable, the address valid and
\* both reads returning, analyze_wallet succeeds whichever balanceOf calls
\* fail; a token whose call failed is not in holdings, and a token whose
\* call returned a positive amount is in holdings with that amount / 10**18.
C10_TokenIsolation ==
    (/\ phase = "returned"
     /\ env.connected
     /\ is_address(in_address)
     /\ ~env.balance.raises
     /\ ~env.tx.raises) =>
        /\ result.ok
        /\ \A t \in TokenNames :
              /\ env.tokens[t].raises => t \notin DOMAIN result.stats.holdings
              /\ (~env.tokens[t].raises /\ env.tokens[t].val > 0) =>
                    /\ t \in DOMAIN result.stats.holdings
                    /\ result.stats.holdings[t].num = env.tokens[t].val
                    /\ result.stats.holdings[t].den = WeiPerEth

\* The first contract's call failed and a later contract's token is held.
C10_Witness ==
    /\ phase = "returned"
    /\ result.ok
    /\ env.tokens[CONTRACTS[1]].raises
    /\ CONTRACTS[Len(CONTRACTS)] \in DOMAIN result.stats.holdings

\* The columns save_identity writes from the analysis.
AnalysisFields(row) ==
    <<row.name, row.tier, row.verdict, row.stats, row.scores>>

\* C11. mark_as_minted on an address with no row returns False and leaves
\* the table as it was; on an address with a row it returns True, sets
\* minted = true, mint_tx_hash = the given hash and minted_at = now, and
\* leaves the row's name, tier, verdict, stats, scores and created_at and
\* every other row unchanged; it never adds or removes a row.
C11_MarkAsMinted ==
    [][\A a \in ValidSpellings, h \in TxHashes :
          mark_as_minted(a, h) =>
             /\ DOMAIN store' = DOMAIN store
             /\ \A b \in DOMAIN store \ {a} : store'[b] = store[b]
             /\ IF a \notin DOMAIN store
                THEN /\ mintResult' = Some(FALSE)
                     /\ store' = store
                ELSE /\ mintResult' = Some(TRUE)
                     /\ store'[a].minted = TRUE
                     /\ store'[a].mint_tx_hash = Some(h)
                     /\ store'[a].minted_at = Some(now)
                     /\ AnalysisFields(store'[a]) = AnalysisFields(store[a])
                     /\ store'[a].address = a
                     /\ store'[a].created_at = store[a].created_at]_vars

\* Of two rows one has been marked as minted, the call returned True, and
\* the other row is not minted.
C11_Witness ==
    /\ mintResult = Some(TRUE)
    /\ \E a, b \in DOMAIN store :
          /\ a /= b
          /\ store[a].minted
          /\ store[a].mint_tx_hash /= None
          /\ ~store[b].minted
          /\ store[b].mint_tx_hash = None

\* C12. Concurrent upserts are atomic per address: a save_identity call
\* that commits leaves the row with the name, tier, verdict, stats and
\* scores of that caller, or with those the row had before the commit (the
\* fields of the caller who committed before), never with some columns of
\* the one and some of the other.
C12_UpsertAtomic ==
    [][\A r \in Reqs :
          LET data == SaveData(state[r])
              a == data["address"]
          IN  Committed(r) =>
                 \/ AnalysisFields(store'[a]) =
                      <<data["name"], data["tier"], data["verdict"],
                        data["stats"], data["scores"]>>
                 \/ /\ a \in DOMAIN store
                    /\ AnalysisFields(store'[a]) = AnalysisFields(store[a])]_vars

\* C13. Persist failure is surfaced and leaves no trace: when the commit
\* of save_identity fails, the run stops with that exception as its error,
\* the table is as it was before (no row, or the row unchanged), nothing is
\* displayed and no write is counted; and a following request for an
\* address that has no row is a cache miss that enters the analyst stage.
C13_PersistFailure ==
    [][\A r \in Reqs :
          /\ (pc[r] = "commit" /\ pc'[r] = "stopped") =>
                /\ store' = store
                /\ err'[r] \in {WriteFailed, IntegrityNull, IntegrityUnique}
                /\ identity_data'[r] = None
                /\ calls'[r].writes = 0
          /\ \A input \in ValidSpellings :
                (/\ Generate(r, input)
                 /\ pc[r] = "stopped"
                 /\ err[r].stage = "save"
                 /\ to_checksum_address(input) \notin DOMAIN store) =>
                    /\ pc'[r] = "analyst"
                    /\ ~cached'[r]
                    /\ store' = store]_vars

\* The first run made its naming call and its write failed; the second
\* request for the address found no row and has analysed the wallet again.
C13_Witness ==
    \E r \in Reqs :
        /\ runs = 2
        /\ pc[r] = "identity"
        /\ calls[r].chain > 0
        /\ namingCalls[state[r].address] = 1
        /\ state[r].address \notin DOMAIN store

\* C14. Every row a workflow run has stored has a non-empty name and a
\* non-empty verdict, whatever the naming model answered.
C14_NameAndVerdictNonEmpty ==
    \A a \in DOMAIN store :
        /\ store[a].name \notin {None, Some("")}
        /\ store[a].verdict \notin {None, Some("")}

\* The order COMMON < RARE < LEGENDARY < GODLY.
TierRank(t) ==
    CASE t = "COMMON" -> 0
      [] t = "RARE" -> 1
      [] t = "LEGENDARY" -> 2
      [] t = "GODLY" -> 3

\* The four bands of the final score, in tenths.
TierBands ==
    {[tier |-> "COMMON", lo |-> 0, hi |-> 399],
     [tier |-> "RARE", lo |-> 400, hi |-> 649],
     [tier |-> "LEGENDARY", lo |-> 650, hi |-> 849],
     [tier |-> "GODLY", lo |-> 850, hi |-> 1000]}

Returned(f) == phase = "returned" /\ fn = f

\* C15. calculate_tier maps every final score in [0, 100] to the tier of
\* the one band that holds it (>= 85 GODLY, >= 65 LEGENDARY, >= 40 RARE,
\* otherwise COMMON); the bands follow one another without gap or overlap
\* and cover [0, 100]; and no smaller score has a higher tier.
C15_TierBands ==
    Returned("calculate_tier") =>
        /\ \E b \in TierBands :
              /\ b.lo <= arg.final_score /\ arg.final_score <= b.hi
              /\ out.tier = b.tier
        /\ \A b \in TierBands :
              out.tier = b.tier =>
                 b.lo <= arg.final_score /\ arg.final_score <= b.hi
        /\ \A b \in TierBands :
              b.lo = 0 \/ \E c \in TierBands :
                 c.hi + 1 = b.lo /\ TierRank(c.tier) + 1 = TierRank(b.tier)
        /\ \A y \in 0..arg.final_score :
              TierRank(calculate_tier(y)) <= TierRank(out.tier)

\* The score exactly 85 is GODLY.
C15_Witness ==
    /\ Returned("calculate_tier")
    /\ arg.final_score = 850
    /\ out.tier = "GODLY"

\* C16. The final score is 0.3 * wealth + 0.4 * vitality + 0.3 * community
\* (in tenths: 3w + 4v + 3c) and lies in [0, 100] (in tenths: 0..1000) for
\* all sub-scores in [0, 100].
C16_FinalScore ==
    Returned("final_score") =>
        /\ out.score = 3 * arg.sub[1] + 4 * arg.sub[2] + 3 * arg.sub[3]
        /\ 0 <= out.score
        /\ out.score <= 1000

\* The three sub-scores are 100 and the final score is 100.
C16_Witness ==
    /\ Returned("final_score")
    /\ arg.sub = <<100, 100, 100>>
    /\ out.score = 1000

\* C17. calculate_wealth_score is 100 for a balance b >= 10, 80 for
\* 1 <= b < 10, 50 for 0.1 <= b < 1 and 20 for b < 0.1; the balance is
\* wei / WeiPerEth, so 10, 1 and 0.1 are 1000, 100 and 10 units of wei.
C17_WealthSteps ==
    Returned("calculate_wealth_score") =>
        LET wei == arg.eth_balance.num
        IN  /\ arg.eth_balance.den = 100
            /\ wei >= 1000 => out.score = 100
            /\ (100 <= wei /\ wei < 1000) => out.score = 80
            /\ (10 <= wei /\ wei < 100) => out.score = 50
            /\ wei < 10 => out.score = 20

\* The balance exactly 0.1 scores 50.
C17_Witness ==
    /\ Returned("calculate_wealth_score")
    /\ arg.eth_balance = DivWei(10)
    /\ out.score = 50

\* C18. calculate_vitality_score is 100 for n >= 1000 transactions, 85 for
\* 500 <= n < 1000, 60 for 100 <= n < 500, 40 for 20 <= n < 100 and 10 for
\* n < 20.
C18_VitalitySteps ==
    Returned("calculate_vitality_score") =>
        LET n == arg.tx_count
        IN  /\ n >= 1000 => out.score = 100
            /\ (500 <= n /\ n < 1000) => out.score = 85
            /\ (100 <= n /\ n < 500) => out.score = 60
            /\ (20 <= n /\ n < 100) => out.score = 40
            /\ n < 20 => out.score = 10

\* 500 transactions score 85.
C18_Witness ==
    /\ Returned("calculate_vitality_score")
    /\ arg.tx_count = 500
    /\ out.score = 85

\* C19. calculate_community_score is min(100, 20 * k), k being the number
\* of entries of the holdings map with a balance > 0; entries with a
\* balance <= 0 add nothing, and the score is at most 100.
C19_CommunityScore ==
    Returned("calculate_community_score") =>
        LET k == Cardinality({t \in DOMAIN arg.holdings :
                                arg.holdings[t].num > 0})
        IN  /\ out.score = IF 20 * k > 100 THEN 100 ELSE 20 * k
            /\ out.score <= 100

\* Six tokens are held with a positive balance and the score is 100.
C19_Witness ==
    /\ Returned("calculate_community_score")
    /\ DOMAIN arg.holdings = TokenNames
    /\ \A t \in TokenNames : arg.holdings[t].num > 0
    /\ out.score = 100

\* C20. End-to-end scoring: when analyze_wallet returns, its statistics
\* hold the fetched balance and transaction count, the wealth, vitality and
\* community scores are the step functions of the balance, the transaction
\* count and the holdings, final_score is their weighted sum and tier is
\* calculate_tier(final_score).  Balance 12.5, 1200 transactions and one
\* token held give 100, 100, 20, final 76, LEGENDARY; balance 0.05, 5
\* transactions and nothing held give 20, 10, 0, final 10, COMMON.
C20_EndToEndScoring ==
    (phase = "returned" /\ result.ok) =>
        LET st == result.stats
        IN  /\ st.eth_balance = DivWei(env.balance.val)
            /\ st.tx_count = env.tx.val
            /\ st.wealth_score = calculate_wealth_score(st.eth_balance)
            /\ st.vitality_score = calculate_vitality_score(st.tx_count)
            /\ st.community_score = calculate_community_score(st.holdings)
            /\ st.final_score = 3 * st.wealth_score + 4 * st.vitality_score
                                  + 3 * st.community_score
            /\ st.tier = calculate_tier(st.final_score)
            /\ (/\ env.balance.val = 1250
                /\ env.tx.val = 1200
                /\ Cardinality(DOMAIN st.holdings) = 1) =>
                   /\ st.wealth_score = 100
                   /\ st.vitality_score = 100
                   /\ st.community_score = 20
                   /\ st.final_score = 760
                   /\ st.tier = "LEGENDARY"
            /\ (/\ env.balance.val = 5
                /\ env.tx.val = 5
                /\ DOMAIN st.holdings = {}) =>
                   /\ st.wealth_score = 20
                   /\ st.vitality_score = 10
                   /\ st.community_score = 0
                   /\ st.final_score = 100
                   /\ st.tier = "COMMON"

\* The wallet with balance 12.5, 1200 transactions and one token held has
\* been analysed as LEGENDARY.
C20_Witness ==
    /\ phase = "returned"
    /\ result.ok
    /\ result.stats.eth_balance = DivWei(1250)
    /\ result.stats.tx_count = 1200
    /\ Cardinality(DOMAIN result.stats.holdings) = 1
    /\ result.stats.final_score = 760
    /\ result.stats.tier = "LEGENDARY"

\* Every entry of a holdings map has a balance > 0.
AllPositive(holdings) ==
    \A t \in DOMAIN holdings : holdings[t].num > 0 /\ holdings[t].den > 0

\* C21. Holdings never contains a non-positive value: the statistics a
\* successful analyze_wallet call returned (to the caller, or into the
\* state of a workflow run) and the stats of every stored row have only
\* balances > 0 in holdings.
C21_HoldingsPositive ==
    /\ (phase = "returned" /\ result.ok) => AllPositive(result.stats.holdings)
    /\ \A r \in Reqs : AllPositive(state[r].wallet_stats.holdings)
    /\ \A a \in DOMAIN store : AllPositive(store[a].stats.holdings)

\* A row has been stored for the wallet that holds one token, another
\* contract's call having failed and the other four balances being zero.
C21_Witness ==
    \E a \in DOMAIN store :
        /\ DOMAIN store[a].stats.holdings = {"BRETT"}
        /\ store[a].stats.holdings["BRETT"] = DivWei(300)
        /\ store[a].scores.community_score = 20

\* The positions a request may move to from position p.
After(p) ==
    CASE p \in {"idle", "shown", "stopped"} -> {"analyst", "shown", "stopped"}
      [] p = "analyst" -> {"identity", "stopped"}
      [] p = "identity" -> {"save", "stopped"}
      [] p = "save" -> {"commit"}
      [] p = "commit" -> {"reload", "stopped"}
      [] p = "reload" -> {"shown"}

\* The stage a position belongs to: Analyze, Name or Persist.
StageOf(p) ==
    CASE p = "analyst" -> "analyst"
      [] p = "identity" -> "identity"
      [] p \in {"save", "commit"} -> "save"
      [] OTHER -> ""

\* The stage whose failure produces the message of an error.
StageOfMessage(msg) ==
    CASE msg \in {ConnectFailed.msg, FetchFailed.msg, InvalidAddress.msg}
           -> "analyst"
      [] msg \in {WriteFailed.msg, IntegrityNull.msg, IntegrityUnique.msg}
           -> "save"
      [] msg = "model client could not be constructed" -> "identity"
      [] OTHER -> ""

Canonical == {"0xAb", "0xCd"}

\* C23. Records are keyed by the canonical address: every row is stored
\* under the checksummed form of its address and carries it, so the wallet
\* typed as "0xab" and as "0xAb" has at most one row; and a request that
\* types either spelling while the row exists is a cache hit on that row.
C23_CanonicalKey ==
    [][/\ DOMAIN store' \subseteq Canonical
       /\ \A a \in DOMAIN store' : store'[a].address = a
       /\ Cardinality(DOMAIN store' \cap {"0xab", "0xAb"}) <= 1
       /\ \A r \in Reqs :
             (Generate(r, Spelling[r]) /\ "0xAb" \in DOMAIN store) =>
                /\ pc'[r] = "shown"
                /\ cached'[r]
                /\ identity_data'[r] = Some(store["0xAb"])
                /\ store' = store]_vars

\* The request that typed the lower-case spelling generated the row, and
\* the request that typed the checksum spelling was answered from it.
C23_Witness ==
    /\ pc[1] = "shown" /\ ~cached[1]
    /\ pc[2] = "shown" /\ cached[2]
    /\ DOMAIN store = {"0xAb"}
    /\ identity_data[2] = Some(store["0xAb"])

\* C24. Mint fields imply minted: after every step, a row whose
\* mint_tx_hash or minted_at is present has minted = true, and a row the
\* step created has minted = false and both fields absent.
C24_MintFieldsImplyMinted ==
    [][\A a \in DOMAIN store' :
          /\ (store'[a].mint_tx_hash /= None \/ store'[a].minted_at /= None)
                => store'[a].minted
          /\ a \notin DOMAIN store =>
                /\ ~store'[a].minted
                /\ store'[a].mint_tx_hash = None
                /\ store'[a].minted_at = None]_vars

\* A row was marked as minted and afterwards rewritten by a run that had
\* read it: it is minted and carries its hash and time.
C24_Witness ==
    \E a \in DOMAIN store :
       /\ store[a].minted
       /\ store[a].mint_tx_hash /= None
       /\ store[a].minted_at /= None
       /\ store[a].created_at > store[a].minted_at[1]

\* C25. save_identity on an existing address replaces name, tier, verdict,
\* stats and scores by the supplied values and refreshes an update
\* timestamp of its own, the row's creation timestamp staying what it was;
\* on an unknown address it inserts a row with minted = false (the workflow
\* supplies no mint fields).  The update case is taken where no other
\* writer touched the row between the query and the commit.
C25_UpsertTimestamps ==
    [][\A r \in Reqs :
          LET data == SaveData(state[r])
              a == data["address"]
              supplied == <<data["name"], data["tier"], data["verdict"],
                            data["stats"], data["scores"]>>
          IN  Committed(r) =>
                 IF txn[r].existing
                 THEN store[a] = txn[r].loaded[1] =>
                         /\ AnalysisFields(store'[a]) = supplied
                         /\ store'[a].created_at = store[a].created_at
                 ELSE /\ a \notin DOMAIN store
                      /\ AnalysisFields(store'[a]) = supplied
                      /\ ~store'[a].minted
                      /\ store'[a].created_at = txn[r].created_at]_vars

\* C26. No lost mint under interleaving: when mark_as_minted(addr, h) has
\* committed between the query of a save_identity update for addr (which
\* read the row unminted and carries no mint keys) and that update's commit,
\* the row after the commit has minted = true, mint_tx_hash = h and the
\* minted_at the mark stored.
C26_NoLostMint ==
    [][\A r \in Reqs :
          LET a == SaveData(state[r])["address"]
          IN  (/\ Committed(r)
               /\ txn[r].existing
               /\ ~txn[r].loaded[1].minted
               /\ store[a].minted) =>
                  /\ store'[a].minted
                  /\ store'[a].mint_tx_hash = store[a].mint_tx_hash
                  /\ store'[a].mint_tx_hash /= None
                  /\ store'[a].minted_at = store[a].minted_at]_vars

\* An update has read the row unminted, the row has been marked as minted
\* since, and the update is about to commit.
C26_Witness ==
    \E r \in Reqs :
       /\ pc[r] = "commit"
       /\ txn[r].existing
       /\ ~txn[r].loaded[1].minted
       /\ store[UpsertAddress].minted
       /\ store[UpsertAddress].minted_at[1] >= txn[r].created_at
       /\ mintResult = Some(TRUE)

\* C27. Persisted records are internally consistent: in every state of the
\* table, each row has tier = calculate_tier(scores.final_score),
\* scores.final_score = 0.3 wealth + 0.4 vitality + 0.3 community, and the
\* three sub-scores equal to the step functions of the eth_balance,
\* tx_count and holdings stored in the same row.
C27_RecordsConsistent ==
    \A a \in DOMAIN store :
       LET stats == store[a].stats
           scores == store[a].scores
       IN  /\ store[a].tier = calculate_tier(scores.final_score)
           /\ scores.final_score =
                 FinalScore10(scores.wealth_score, scores.vitality_score,
                              scores.community_score)
           /\ scores.wealth_score = calculate_wealth_score(stats.eth_balance)
           /\ scores.vitality_score = calculate_vitality_score(stats.tx_count)
           /\ scores.community_score =
                 calculate_community_score(stats.holdings)

====
